---- MODULE Spec2Model ----
(***************************************************************************)
(* Model of backend/api.py: the box geometry (clip_box, crop_rgb,          *)
(* head_square_crop), the top-k aggregation of classify_crop and the       *)
(* /predict handler.                                                       *)
(*                                                                         *)
(* Numbers.  Box coordinates are Python floats.  A coordinate is kept as   *)
(* an integer number of 1/Scale pixels, so that int() (truncation toward   *)
(* zero) is a real conversion.  An integer pixel index v passed to a       *)
(* function that applies int() is passed as v * Scale.                     *)
(* An image buffer is kept as its shape <<h, w>>; a crop is the view       *)
(* [y0, x0, rows, cols] that numpy slicing yields.                         *)
(***************************************************************************)
EXTENDS Integers, Sequences, FiniteSets, TLC

VARIABLES
    pc,         \* position of the operation under way
    w, h,       \* image width and height
    box,        \* box handed to the geometry functions
    clipped,    \* result of the first clip_box call
    square,     \* square built by head_square_crop before the re-clip
    reclipped,  \* result of the second clip_box call
    crop,       \* crop returned by crop_rgb / head_square_crop
    probs,      \* res.probs of the classifier: None or a probability vector
    topk,       \* the topk argument of classify_crop
    idxs,       \* the class indices classify_crop selected
    cls,        \* the dictionary classify_crop returned
    loaded,     \* det_model and cls_model are set
    cv2,        \* the cv2 import succeeded
    boxes,      \* det_res.boxes: None or the sequence of detector boxes
    j,          \* loop index of /predict
    out,        \* the list out of /predict
    clsLog,     \* the classifier's answers of this request, in call order
    calls,      \* how often each stage ran in this request
    response    \* what /predict returned

geom == <<w, h, box, clipped, square, reclipped, crop>>
clsv == <<probs, topk, idxs, cls>>
reqv == <<loaded, cv2, boxes, j, out, clsLog, calls, response>>
vars == <<pc, geom, clsv, reqv>>

\* ------------------------------------------------------------------ bounds
Scale == 2      \* sub-pixel resolution of a float coordinate
MaxDim == 3     \* largest image side of the clip specification
CoordLo == 3    \* lowest coordinate is -CoordLo / Scale
CoordHi == 7    \* highest coordinate is CoordHi / Scale
GridStep == 5   \* spacing, in 1/Scale pixels, of the coarse coordinates
MaxGrid == 15   \* the coarse coordinates run from -GridStep to MaxGrid * GridStep
BigDim == 36    \* side of the large image of the crop specification
MaxClasses == 3 \* largest number of classes of the classifier
MaxLevel == 2   \* probabilities are the levels 0 .. MaxLevel
MaxK == 4       \* largest requested topk
MaxDets == 3    \* largest number of boxes the detector returns
PredDim == 6    \* side of the image of the request specification

\* A value that may be None is None or Some(x); Val(o) is the x of Some(x).
None == <<>>
Some(x) == <<x>>
Val(o) == o[1]
NoBox == <<0, 0, 0, 0>>
NoCrop == [y0 |-> 0, x0 |-> 0, rows |-> 0, cols |-> 0, px |-> "none"]
NoCls == [label |-> Some("unset"), confidence |-> None, topk |-> <<>>]
NoCalls == [detect |-> 0, crop |-> 0, enhance |-> 0, classify |-> 0]
NoResponse == [ok |-> FALSE, status |-> 0, error |-> "", image_size |-> <<0, 0>>,
               detections |-> <<>>]

\* ----------------------------------------------------------------- helpers
max(a, b) == IF a >= b THEN a ELSE b
min(a, b) == IF a <= b THEN a ELSE b

\* int(n / d) for d > 0: Python's int() truncates toward zero.
TruncDiv(n, d) == IF n >= 0 THEN n \div d ELSE -((-n) \div d)

\* int(v) of a coordinate v given in 1/Scale pixels.
int(v) == TruncDiv(v, Scale)

\* numpy basic slice a[start:stop] on an axis of length n: negative indices
\* count from the end, both ends are clamped to the axis.
SliceStart(start, n) == max(0, min(IF start < 0 THEN start + n ELSE start, n))
SliceLen(start, stop, n) ==
    max(0, SliceStart(stop, n) - SliceStart(start, n))

\* np_img[y1:y2, x1:x2, :] on a buffer of shape <<h, w>>.
Slice(np_img, y1, y2, x1, x2) ==
    [y0   |-> SliceStart(y1, np_img[1]),
     x0   |-> SliceStart(x1, np_img[2]),
     rows |-> SliceLen(y1, y2, np_img[1]),
     cols |-> SliceLen(x1, x2, np_img[2]),
     px   |-> "src"]

\* ---------------------------------------------------------------- clip_box
\* clip_box with the nudge taken from x2 / y2 instead of x1 / y1.
clip_box_nudge_from_x2(x1, y1, x2, y2, iw, ih) ==
    LET cx1 == max(0, min(int(x1), iw - 1))
        cy1 == max(0, min(int(y1), ih - 1))
        cx2 == max(0, min(int(x2), iw - 1))
        cy2 == max(0, min(int(y2), ih - 1))
        nx2 == IF cx2 <= cx1 THEN min(iw - 1, cx2 + 1) ELSE cx2
        ny2 == IF cy2 <= cy1 THEN min(ih - 1, cy2 + 1) ELSE cy2
    IN  <<cx1, cy1, nx2, ny2>>

clip_box(x1, y1, x2, y2, iw, ih) ==
    LET cx1 == max(0, min(int(x1), iw - 1))
        cy1 == max(0, min(int(y1), ih - 1))
        cx2 == max(0, min(int(x2), iw - 1))
        cy2 == max(0, min(int(y2), ih - 1))
        nx2 == IF cx2 <= cx1 THEN min(iw - 1, cx1 + 1) ELSE cx2
        ny2 == IF cy2 <= cy1 THEN min(ih - 1, cy1 + 1) ELSE cy2
    IN  <<cx1, cy1, nx2, ny2>>

\* A tuple of integer pixel indices as the float-compatible argument.
AsCoords(b) == <<b[1] * Scale, b[2] * Scale, b[3] * Scale, b[4] * Scale>>

crop_rgb(np_img, box_xyxy) ==
    LET c == clip_box(box_xyxy[1], box_xyxy[2], box_xyxy[3], box_xyxy[4],
                      np_img[2], np_img[1])
    IN  Slice(np_img, c[2], c[4], c[1], c[3])

\* -------------------------------------------------------- head_square_crop
HeadBiasNum == 9    \* 0.45 = 9 / 20
HeadBiasDen == 20
PadDen == 20        \* 0.05 = 1 / 20

\* side = int(max(bw, bh)) of the clipped box c.
head_side(c) == max(c[3] - c[1], c[4] - c[2])

\* side2 = side + 2 * int(side * 0.05).
head_side2(side) == side + 2 * TruncDiv(side, PadDen)

\* head_square with ny2 = ny1 + side: the padding left out of the height.
head_square_unpadded_height(c) ==
    LET bh   == c[4] - c[2]
        cx   == TruncDiv(c[1] + c[3], 2)
        cy   == TruncDiv(c[2] * HeadBiasDen + bh * HeadBiasNum, HeadBiasDen)
        nx1  == cx - head_side2(head_side(c))
        ny1  == cy - head_side2(head_side(c))
    IN  <<nx1, ny1, nx1 + head_side2(head_side(c)), ny1 + head_side(c)>>

\* The square <<nx1, ny1, nx2, ny2>> built from the clipped box c (lines
\* 92-108), before the re-clip.
head_square(c) ==
    LET bh   == c[4] - c[2]
        cx   == TruncDiv(c[1] + c[3], 2)
        cy   == TruncDiv(c[2] * HeadBiasDen + bh * HeadBiasNum, HeadBiasDen)
        nx1  == cx - head_side2(head_side(c))
        ny1  == cy - head_side2(head_side(c))
    IN  <<nx1, ny1, nx1 + head_side2(head_side(c)),
          ny1 + head_side2(head_side(c))>>

\* head_square_crop with its locals kept in the variables: clipped is the
\* first clip_box result, square the square built from it, reclipped the
\* second clip_box result (in the side < 2 branch the one crop_rgb
\* computes), crop the value returned.
head_square_crop(np_img, box_xyxy) ==
    /\ clipped' = clip_box(box_xyxy[1], box_xyxy[2], box_xyxy[3], box_xyxy[4],
                           np_img[2], np_img[1])
    /\ IF head_side(clipped') < 2
       THEN /\ square' = NoBox
            /\ reclipped' = clip_box(clipped'[1] * Scale, clipped'[2] * Scale,
                                     clipped'[3] * Scale, clipped'[4] * Scale,
                                     np_img[2], np_img[1])
            /\ crop' = crop_rgb(np_img, AsCoords(clipped'))
       ELSE /\ square' = head_square(clipped')
            /\ reclipped' = clip_box(square'[1] * Scale, square'[2] * Scale,
                                     square'[3] * Scale, square'[4] * Scale,
                                     np_img[2], np_img[1])
            /\ crop' = Slice(np_img, reclipped'[2], reclipped'[4],
                             reclipped'[1], reclipped'[3])

\* ----------------------------------------------------------- classify_crop
\* names[i] of the classifier: an opaque label per class index.
ClsName(i) == <<"class", i>>

\* seq[:n] of Python.
PySliceTo(seq, n) ==
    IF n >= 0 THEN SubSeq(seq, 1, min(n, Len(seq)))
    ELSE SubSeq(seq, 1, max(0, Len(seq) + n))

\* The orders np.argsort can return for ascending keys: every permutation of
\* the 0-based indices with non-decreasing keys.  The default sort kind is
\* not stable, so the order among equal keys is whatever the build produces.
SortedOrders(keys) ==
    LET n == Len(keys)
    IN  {o \in [1..n -> 0..(n - 1)] :
            /\ \A a, b \in 1..n : a # b => o[a] # o[b]
            /\ \A a, b \in 1..n : a < b => keys[o[a] + 1] <= keys[o[b] + 1]}

\* np.argsort(p): the negation left out.
ArgsortNegAscending(p) == SortedOrders(p)

\* np.argsort(-p).
ArgsortNeg(p) == SortedOrders([i \in 1..Len(p) |-> -p[i]])

\* What stands for classify_crop raising instead of returning.
ClsRaised == [label |-> Some("raised"), confidence |-> None, topk |-> <<>>]

\* idxs = np.argsort(-p)[:topk] for the order np.argsort returned.
top_idxs(order, k) == PySliceTo(order, k)

\* classify_crop without the test for probs None: probs.data raises.
classify_crop_no_none_test(pr, order, k) ==
    IF pr = None
    THEN ClsRaised
    ELSE LET p  == Val(pr)
             ix == top_idxs(order, k)
             top_list == [n \in 1..Len(ix) |->
                            [label |-> ClsName(ix[n]),
                             confidence |-> p[ix[n] + 1]]]
             best == IF Len(top_list) > 0
                     THEN [label |-> Some(top_list[1].label),
                           confidence |-> Some(top_list[1].confidence)]
                     ELSE [label |-> None, confidence |-> None]
         IN  [label |-> best.label, confidence |-> best.confidence,
              topk |-> top_list]

\* classify_crop after the classifier call: pr is res.probs (None or the
\* vector), order the result of np.argsort(-p), k the topk argument.
\* p.astype(float) and float(p[i]) widen float32 to float64 and keep the
\* value, so a confidence is the vector's entry itself.
classify_crop(pr, order, k) ==
    IF pr = None
    THEN [label |-> None, confidence |-> None, topk |-> <<>>]
    ELSE LET p  == Val(pr)
             ix == top_idxs(order, k)
             top_list == [n \in 1..Len(ix) |->
                            [label |-> ClsName(ix[n]),
                             confidence |-> p[ix[n] + 1]]]
             best == IF Len(top_list) > 0
                     THEN [label |-> Some(top_list[1].label),
                           confidence |-> Some(top_list[1].confidence)]
                     ELSE [label |-> None, confidence |-> None]
         IN  [label |-> best.label, confidence |-> best.confidence,
              topk |-> top_list]


ClsIdle ==
    /\ probs = None
    /\ topk = 0
    /\ idxs = <<>>
    /\ cls = NoCls

\* ----------------------------------------------------------------- predict
\* enhance_for_cls: the crop itself without cv2, else a new buffer of the
\* same shape holding the CLAHE-equalised pixels.
enhance_for_cls(c, hasCv2) == IF hasCv2 THEN [c EXCEPT !.px = "clahe"] ELSE c

\* det_res.names of the detector.
DetNames == [i \in {0} |-> "screw"]

\* The guard without the None test.
NoBoxes_len_only(bx) == bx # None /\ Len(Val(bx)) = 0

\* boxes is None or len(boxes) == 0.
NoBoxes(bx) == bx = None \/ Len(Val(bx)) = 0

\* The "det" dictionary of a box b (lines 231-234, 243-247).
DetEntry(b) ==
    LET cls_id == IF b.cls # None THEN Val(b.cls) ELSE 0
    IN  [label |-> IF cls_id \in DOMAIN DetNames THEN DetNames[cls_id]
                   ELSE ToString(cls_id),
         confidence |-> b.conf,
         bbox_xyxy |-> b.xyxy]

\* out.insert(0, entry) in place of out.append(entry).
OutPrepend(o, entry) == <<entry>> \o o

\* out.append(entry).
OutAppend(o, entry) == Append(o, entry)

ReqIdle ==
    /\ loaded = FALSE
    /\ cv2 = FALSE
    /\ boxes = None
    /\ j = 0
    /\ out = <<>>
    /\ clsLog = <<>>
    /\ calls = NoCalls
    /\ response = NoResponse

\* ------------------------------------------------- clip specification
Coords == (-CoordLo)..CoordHi
Dims == 1..MaxDim

InitClip ==
    /\ pc = "box"
    /\ w \in Dims
    /\ h \in Dims
    /\ box \in Coords \X Coords \X Coords \X Coords
    /\ clipped = NoBox
    /\ square = NoBox
    /\ reclipped = NoBox
    /\ crop = NoCrop
    /\ ClsIdle
    /\ ReqIdle

\* clip_box applied to the detector box.
ClipBox ==
    /\ pc = "box"
    /\ clipped' = clip_box(box[1], box[2], box[3], box[4], w, h)
    /\ pc' = "clipped"
    /\ UNCHANGED <<w, h, box, square, reclipped, crop, clsv, reqv>>

\* clip_box applied to its own output (as head_square_crop -> crop_rgb does).
ReClip ==
    /\ pc = "clipped"
    /\ reclipped' = clip_box(clipped[1] * Scale, clipped[2] * Scale,
                             clipped[3] * Scale, clipped[4] * Scale, w, h)
    /\ pc' = "reclipped"
    /\ UNCHANGED <<w, h, box, clipped, square, crop, clsv, reqv>>

\* crop_rgb applied to the detector box.
CropRgb ==
    /\ pc = "box"
    /\ crop' = crop_rgb(<<h, w>>, box)
    /\ pc' = "cropped"
    /\ UNCHANGED <<w, h, box, clipped, square, reclipped, clsv, reqv>>

NextClip == ClipBox \/ ReClip \/ CropRgb

SpecClip == InitClip /\ [][NextClip]_vars

\* ------------------------------------------------- crop specification
GridCoords == {g * GridStep : g \in (-1)..MaxGrid}
CropDims == Dims \cup {BigDim}

InitCrop ==
    /\ pc = "box"
    /\ w \in CropDims
    /\ h \in CropDims
    /\ box \in GridCoords \X GridCoords \X GridCoords \X GridCoords
    /\ clipped = NoBox
    /\ square = NoBox
    /\ reclipped = NoBox
    /\ crop = NoCrop
    /\ ClsIdle
    /\ ReqIdle

\* head_square_crop applied to the detector box.
HeadSquareCrop ==
    /\ pc = "box"
    /\ head_square_crop(<<h, w>>, box)
    /\ pc' = "head"
    /\ UNCHANGED <<w, h, box, clsv, reqv>>

NextCrop == HeadSquareCrop

SpecCrop == InitCrop /\ [][NextCrop]_vars

\* ------------------------------------------- classification specification
Levels == 0..MaxLevel
ProbVectors == UNION {[1..n -> Levels] : n \in 1..MaxClasses}

InitCls ==
    /\ pc = "probs"
    /\ probs \in {Some(v) : v \in ProbVectors} \cup {None}
    /\ topk \in 1..MaxK
    /\ idxs = <<>>
    /\ cls = NoCls
    /\ w = 1 /\ h = 1
    /\ box = NoBox
    /\ clipped = NoBox
    /\ square = NoBox
    /\ reclipped = NoBox
    /\ crop = NoCrop
    /\ ReqIdle

\* classify_crop from the classifier's answer on.
ClassifyCrop ==
    /\ pc = "probs"
    /\ \E order \in (IF probs = None THEN {<<>>} ELSE ArgsortNeg(Val(probs))) :
          /\ idxs' = IF probs = None THEN <<>> ELSE top_idxs(order, topk)
          /\ cls' = classify_crop(probs, order, topk)
    /\ pc' = "classified"
    /\ UNCHANGED <<geom, probs, topk, reqv>>

NextCls == ClassifyCrop

SpecCls == InitCls /\ [][NextCls]_vars

\* ------------------------------------------------- request specification
\* Boxes the detector may return on the PredDim x PredDim image: one inside
\* with fractional corners, one inverted, one of zero area, one wholly
\* outside; a class id that is in names, one that is not, and a missing one.
DetChoices ==
    {[xyxy |-> <<Scale + 1, Scale, 4 * Scale, 5 * Scale + 1>>,
      conf |-> 9, cls |-> Some(0)],
     [xyxy |-> <<4 * Scale, 4 * Scale, Scale, Scale>>,
      conf |-> 5, cls |-> Some(1)],
     [xyxy |-> <<2 * Scale, 2 * Scale, 2 * Scale, 2 * Scale>>,
      conf |-> 3, cls |-> None],
     [xyxy |-> <<(PredDim + 2) * Scale, (PredDim + 2) * Scale,
                 (PredDim + 4) * Scale, (PredDim + 4) * Scale>>,
      conf |-> 2, cls |-> Some(0)]}

DetResults ==
    {None} \cup {Some(bs) : bs \in UNION {[1..n -> DetChoices] : n \in 0..MaxDets}}

\* Answers of the two-class classifier: no probabilities, or a vector.
PredProbs == {None} \cup {Some(v) : v \in [1..2 -> 0..1] \ {<<0, 0>>}}

InitPredict ==
    /\ pc = "startup"
    /\ w = PredDim /\ h = PredDim
    /\ box = NoBox
    /\ clipped = NoBox
    /\ square = NoBox
    /\ reclipped = NoBox
    /\ crop = NoCrop
    /\ ClsIdle
    /\ loaded = FALSE
    /\ cv2 \in BOOLEAN
    /\ boxes = None
    /\ j = 0
    /\ out = <<>>
    /\ clsLog = <<>>
    /\ calls = NoCalls
    /\ response = NoResponse

\* _load_models, the startup hook.
LoadModels ==
    /\ pc = "startup"
    /\ loaded' = TRUE
    /\ pc' = "idle"
    /\ UNCHANGED <<geom, clsv, cv2, boxes, j, out, clsLog, calls, response>>

\* /predict up to the detector call (lines 178-191): the models-not-loaded
\* answer, else the request parameters are taken and the image is read;
\* read_image raises on bytes that are no image.
PredictEntry ==
    /\ pc \in {"startup", "idle"}
    /\ IF ~loaded
       THEN /\ response' = [NoResponse EXCEPT !.status = 500,
                                              !.error = "Models not loaded"]
            /\ pc' = "done"
            /\ topk' = topk
       ELSE /\ \E decoded \in BOOLEAN :
                  IF decoded
                  THEN topk' \in 1..2 /\ pc' = "detect"
                  ELSE topk' = topk /\ pc' = "raised"
            /\ response' = response
    /\ UNCHANGED <<geom, probs, idxs, cls, loaded, cv2, boxes, j, out, clsLog,
                   calls>>

\* The detector call and the test of its result (lines 194-225): the empty
\* answer is returned at once; len(None) raises when the loop is reached
\* with boxes None.
Detect ==
    /\ pc = "detect"
    /\ boxes' \in DetResults
    /\ calls' = [calls EXCEPT !.detect = @ + 1]
    /\ IF NoBoxes(boxes')
       THEN /\ response' = [ok |-> TRUE, status |-> 200, error |-> "",
                            image_size |-> <<w, h>>, detections |-> <<>>]
            /\ pc' = "done"
       ELSE /\ response' = response
            /\ pc' = IF boxes' = None THEN "raised" ELSE "loop"
    /\ UNCHANGED <<geom, clsv, loaded, cv2, j, out, clsLog>>

\* The detector box of iteration j (line 230).
CurBox == Val(boxes)[j + 1]

\* An iteration of the loop of lines 228-250 that raises on an empty crop:
\* in cv2.cvtColor with cv2, else in the classifier's predict.
LoopRaise ==
    /\ pc = "loop"
    /\ j < Len(Val(boxes))
    /\ box' = CurBox.xyxy
    /\ head_square_crop(<<h, w>>, box')
    /\ 0 \in {crop'.rows, crop'.cols}
    /\ pc' = "raised"
    /\ calls' = [calls EXCEPT !.crop = @ + 1, !.enhance = @ + 1,
                              !.classify = @ + (IF cv2 THEN 0 ELSE 1)]
    /\ UNCHANGED <<w, h, clsv, loaded, cv2, boxes, j, out, clsLog, response>>

\* An iteration of the loop of lines 228-250 in which the classifier
\* answers: crop, enhance, classify, append.
LoopBody ==
    /\ pc = "loop"
    /\ j < Len(Val(boxes))
    /\ box' = CurBox.xyxy
    /\ head_square_crop(<<h, w>>, box')
    /\ ~(cv2 /\ 0 \in {crop'.rows, crop'.cols})
    /\ \E pr \in PredProbs :
       \E order \in (IF pr = None THEN {<<>>} ELSE ArgsortNeg(Val(pr))) :
          /\ clsLog' = Append(clsLog, [box |-> box',
                                       crop |-> enhance_for_cls(crop', cv2),
                                       probs |-> pr, order |-> order])
          /\ calls' = [calls EXCEPT !.crop = @ + 1, !.enhance = @ + 1,
                                    !.classify = @ + 1]
          /\ IF classify_crop(pr, order, topk) = ClsRaised
             THEN /\ pc' = "raised"
                  /\ UNCHANGED <<j, out>>
             ELSE /\ out' = OutAppend(out,
                                [det |-> DetEntry(CurBox),
                                 cls |-> classify_crop(pr, order, topk)])
                  /\ j' = j + 1
                  /\ pc' = "loop"
    /\ UNCHANGED <<w, h, clsv, loaded, cv2, boxes, response>>

\* The return of lines 251-257.
Return ==
    /\ pc = "loop"
    /\ j = Len(Val(boxes))
    /\ response' = [ok |-> TRUE, status |-> 200, error |-> "",
                    image_size |-> <<w, h>>, detections |-> out]
    /\ pc' = "done"
    /\ UNCHANGED <<geom, clsv, loaded, cv2, boxes, j, out, clsLog, calls>>

NextPredict ==
    LoadModels \/ PredictEntry \/ Detect \/ LoopRaise \/ LoopBody \/ Return

SpecPredict == InitPredict /\ [][NextPredict]_vars

\* ============================================================ properties
\* ---- clip specification (SpecClip)

\* C1: for every box and every image with w >= 2 and h >= 2, clip_box returns
\* <<x1, y1, x2, y2>> with 0 <= x1 < x2 <= w-1 and 0 <= y1 < y2 <= h-1.
C1_ClipStrictlyOrdered ==
    (pc = "clipped" /\ w >= 2 /\ h >= 2) =>
        /\ 0 <= clipped[1] /\ clipped[1] < clipped[3] /\ clipped[3] <= w - 1
        /\ 0 <= clipped[2] /\ clipped[2] < clipped[4] /\ clipped[4] <= h - 1

\* C6: clip_box is idempotent for every box and every w >= 1, h >= 1:
\* clipping its own output again returns that output unchanged.
C6_ClipIdempotent ==
    pc = "reclipped" => reclipped = clipped

\* C6 witness: a twice-clipped box whose first result was saturated at the
\* right and at the bottom edge of an image with more than one pixel.
C6_Witness ==
    /\ pc = "reclipped"
    /\ w >= 2 /\ h >= 2
    /\ int(box[1]) > w - 1 /\ int(box[2]) > h - 1
    /\ clipped = <<w - 1, h - 1, w - 1, h - 1>>

\* C10: on a 1x1 image the clipped box has width 1 and height 1 and the crop
\* taken from it is the single pixel of the image, a 1x1 buffer.
C10_SinglePixelCrop ==
    (w = 1 /\ h = 1) =>
        /\ pc = "clipped" =>
              clipped[3] - clipped[1] = 1 /\ clipped[4] - clipped[2] = 1
        /\ pc = "cropped" =>
              crop = [y0 |-> 0, x0 |-> 0, rows |-> 1, cols |-> 1, px |-> "src"]

\* ---- crop specification (SpecCrop)

\* C3: for every box (inverted, zero-area, partly or wholly outside) on an
\* image with w >= 2 and h >= 2, head_square_crop returns a crop with at
\* least one pixel row and at least one pixel column.
C3_CropNonEmpty ==
    (pc = "head" /\ w >= 2 /\ h >= 2) => (crop.rows >= 1 /\ crop.cols >= 1)

\* The quantities of head_square_crop, recomputed from the first clip result.
C8_side == max(clipped[3] - clipped[1], clipped[4] - clipped[2])
C8_side2 == C8_side + 2 * (C8_side \div 20)
C8_cx == (clipped[1] + clipped[3]) \div 2
C8_cy == clipped[2] + (9 * (clipped[4] - clipped[2])) \div 20

\* C8: when side >= 2 the square built is <<cx-side2, cy-side2, cx, cy>>; if the
\* re-clip leaves it unchanged the crop has height = width = side2; a crop
\* with height # width is returned only when the re-clip altered a coordinate
\* or when side < 2.
C8_SquareUnlessClipped ==
    pc = "head" =>
        /\ C8_side >= 2 =>
              /\ square = <<C8_cx - C8_side2, C8_cy - C8_side2, C8_cx, C8_cy>>
              /\ reclipped = square =>
                    (crop.rows = C8_side2 /\ crop.cols = C8_side2)
        /\ crop.rows # crop.cols => (C8_side < 2 \/ reclipped # square)

\* C8 witness: a padded square (side >= 20, so side2 > side) that the re-clip
\* leaves unchanged.
C8_Witness ==
    /\ pc = "head"
    /\ C8_side >= 20
    /\ reclipped = square
    /\ crop.rows = C8_side2 /\ crop.cols = C8_side2 /\ C8_side2 > C8_side

\* ---- classification specification (SpecCls)

\* C5: for a vector of numClasses >= 1 entries and k >= 1, topk has length
\* min(k, numClasses), its confidences are non-increasing, each entry is the
\* (label, probability) of a distinct class index, no unselected class has a
\* larger probability than a selected one, and the top-level label and
\* confidence are those of topk[0].
C5_TopKRanked ==
    (pc = "classified" /\ probs # None) =>
        LET p == Val(probs)
            n == Len(p)
            t == cls.topk
        IN  /\ Len(t) = (IF topk <= n THEN topk ELSE n)
            /\ Len(idxs) = Len(t)
            /\ \A a \in 1..Len(t) :
                  /\ idxs[a] \in 0..(n - 1)
                  /\ t[a] = [label |-> ClsName(idxs[a]),
                             confidence |-> p[idxs[a] + 1]]
            /\ \A a, b \in 1..Len(t) : a # b => idxs[a] # idxs[b]
            /\ \A a, b \in 1..Len(t) :
                  a < b => t[a].confidence >= t[b].confidence
            /\ \A i \in 0..(n - 1) :
                  (\A a \in 1..Len(t) : idxs[a] # i) =>
                      \A a \in 1..Len(t) : p[i + 1] <= t[a].confidence
            /\ cls.label = Some(t[1].label)
            /\ cls.confidence = Some(t[1].confidence)

\* C5 witness: three classes, two requested, the unselected class strictly
\* below both selected ones, which differ.
C5_Witness ==
    /\ pc = "classified" /\ probs # None
    /\ Len(Val(probs)) = 3 /\ topk = 2 /\ Len(cls.topk) = 2
    /\ cls.topk[1].confidence > cls.topk[2].confidence
    /\ \E i \in 0..2 : /\ \A a \in 1..2 : idxs[a] # i
                       /\ Val(probs)[i + 1] < cls.topk[2].confidence

\* C9: among classes of equal probability the smaller index is selected in
\* preference to the larger and appears earlier in topk.
C9_TiesByLowestIndex ==
    (pc = "classified" /\ probs # None) =>
        LET p == Val(probs)
        IN  /\ \A a, b \in 1..Len(idxs) :
                  (a < b /\ p[idxs[a] + 1] = p[idxs[b] + 1]) =>
                      idxs[a] < idxs[b]
            /\ \A i \in 0..(Len(p) - 1) :
                  (\A a \in 1..Len(idxs) : idxs[a] # i) =>
                      \A a \in 1..Len(idxs) :
                          p[idxs[a] + 1] = p[i + 1] => idxs[a] < i

\* ---- request specification (SpecPredict)

\* C2: when /predict completes on a non-empty sequence of detector boxes, its
\* detections list has one entry per box, entry i carrying the label,
\* confidence and bbox of box i and the classification computed from the
\* crop of box i.
C2_DetectionsMatchBoxes ==
    (pc = "done" /\ calls.detect = 1 /\ boxes # None /\ Len(Val(boxes)) > 0) =>
        LET bs == Val(boxes)
            d  == response.detections
        IN  /\ response.ok
            /\ Len(d) = Len(bs)
            /\ Len(clsLog) = Len(bs)
            /\ \A i \in 1..Len(bs) :
                  /\ d[i].det = DetEntry(bs[i])
                  /\ d[i].det.bbox_xyxy = bs[i].xyxy
                  /\ d[i].det.confidence = bs[i].conf
                  /\ clsLog[i].box = bs[i].xyxy
                  /\ d[i].cls = classify_crop(clsLog[i].probs, clsLog[i].order,
                                              topk)

\* C2 witness: a completed request over three pairwise different boxes.
C2_Witness ==
    /\ pc = "done" /\ calls.detect = 1 /\ boxes # None
    /\ Len(Val(boxes)) = 3
    /\ \A a, b \in 1..3 : a # b => Val(boxes)[a] # Val(boxes)[b]
    /\ response.ok /\ Len(response.detections) = 3

\* C4: a detection whose classifier answer is None gets exactly
\* {label: None, confidence: None, topk: []}; the loop goes on, every other
\* detection keeps its normal result, and all detections are in the output
\* in the detector's order.
C4_ClassifierMissAbsorbed ==
    /\ \A i \in 1..Len(clsLog) :
          /\ Len(out) >= i
          /\ out[i].det.bbox_xyxy = Val(boxes)[i].xyxy
          /\ clsLog[i].probs = None =>
                out[i].cls = [label |-> None, confidence |-> None, topk |-> <<>>]
          /\ clsLog[i].probs # None =>
                /\ Len(out[i].cls.topk) >= 1
                /\ out[i].cls.label = Some(out[i].cls.topk[1].label)
                /\ out[i].cls.confidence # None
    /\ (pc = "done" /\ calls.detect = 1 /\ boxes # None /\ Len(Val(boxes)) > 0) =>
          /\ response.detections = out
          /\ Len(out) = Len(Val(boxes))

\* C4 witness: three detections, the classifier answering None for the
\* second one only, and the request completed.
C4_Witness ==
    /\ pc = "done" /\ Len(clsLog) = 3
    /\ clsLog[1].probs # None /\ clsLog[2].probs = None /\ clsLog[3].probs # None
    /\ response.ok /\ Len(response.detections) = 3
    /\ response.detections[2].cls.label = None
    /\ response.detections[3].cls.label # None

\* C7: when the detector returns no boxes (None or empty), /predict returns
\* a success result with an empty detections list, and neither the
\* classifier nor the crop or the enhancement ran in that request.
C7_EmptyDetectionsNoClassifier ==
    (calls.detect = 1 /\ (boxes = None \/ Len(Val(boxes)) = 0)) =>
        /\ pc = "done"
        /\ response.ok /\ response.status = 200
        /\ response.detections = <<>>
        /\ calls.classify = 0 /\ calls.crop = 0 /\ calls.enhance = 0
        /\ clsLog = <<>> /\ out = <<>>

\* C7 witness: the detector answered None and the request returned.
C7_Witness ==
    /\ calls.detect = 1 /\ boxes = None
    /\ pc = "done" /\ response.ok

====
